---------------------------- MODULE Spec2Model ----------------------------
(***************************************************************************)
(* A model of the AHC015 Monte Carlo player (src/src/main.rs and           *)
(* src/src/time_keeper.rs): the board State with its insertion, directional*)
(* compaction and scoring, the TimeKeeper, the rollout search and the turn *)
(* loop of main.                                                           *)
(*                                                                         *)
(* Three specifications share the definitions:                             *)
(*   SpecBoard  applies State::advance / update / get_score once to every  *)
(*              board of the bounded size,                                 *)
(*   SpecTime   drives TimeKeeper::set_turn / is_time_over turn by turn,   *)
(*   Spec       is the whole program: main's loop with the search inside.  *)
(***************************************************************************)
EXTENDS Integers, Sequences, FiniteSets, Bags, TLC

\* ------------------------------------------------------------- bounds
\* The board is MaxH x MaxW here (10 x 10 in the source).
MaxH == 3
MaxW == 3
\* Tile values of the boards SpecBoard starts from: 0 (empty) .. MaxTile.
MaxTile == 2
\* Size of the simulation table (14000 in the source).
MaxSim == 2
\* The clock is read in steps of TickMs, up to MaxTicks steps.
MaxTicks == 3
\* The simulation table is one of MaxSeed + 1 tables.
MaxSeed == 0

\* ---------------------------------------------------------- constants
H == MaxH
W == MaxW
\* main.rs:60 sets END_TURN = 100 = H * W: one candy per cell.
END_TURN == H * W
SIMULATION_MAX == MaxSim
\* TimeKeeper::new(1950, END_TURN) in main.
TIME_THRESHOLD == 1950
\* The flavours of the rule table of rulebase_action (3 x 3).
CANDY_KINDS == 3

Rows == 0 .. (H - 1)
Cols == 0 .. (W - 1)
Turns == 0 .. (END_TURN - 1)
Sims == 0 .. (SIMULATION_MAX - 1)

\* enum Action, in the order of LEGAL_ACTIONS.
LEGAL_ACTIONS == <<"Forward", "Back", "Left", "Right">>
Actions == {"Forward", "Back", "Left", "Right"}

VARIABLES
    board, turn,        \* the real State of main
    candies,            \* FUTURE_CANDIES
    table,              \* RANDOM_FOR_SIMULATION
    now,                \* the last value Instant::now() returned (ms)
    tk,                 \* the TimeKeeper: start_time, before_time, turn
    pc,                 \* where the program is
    main_turn,          \* main's loop variable
    pt,                 \* the insertion position last read or applied
    simulation_cnt, d, w,   \* primitive_monteralro's locals
    sim,                \* the rollout's clone: [board, turn]
    action,             \* the action last chosen or applied
    score,              \* the last result of get_score
    pre,                \* the State before the last operation / the search
    in_range,           \* every real position so far was within range
    allow, prev_allow,  \* the per-turn allowance of the last two checks
    elapsed             \* the clock has moved since the TimeKeeper was made

vars == <<board, turn, candies, table, now, tk, pc, main_turn, pt,
          simulation_cnt, d, w, sim, action, score, pre, in_range,
          allow, prev_allow, elapsed>>

\* ------------------------------------------------------------- State
\* State::new
EmptyBoard == [y \in Rows |-> [x \in Cols |-> 0]]

\* [board, turn] of a State.
StateOf(b, t) == [board |-> b, turn |-> t]

\* State::is_done
IsDone(t) == t >= END_TURN

\* The tuple assignment (board[y1][x1], board[y2][x2]) = (board[y2][x2], board[y1][x1]).
Swap(b, y1, x1, y2, x2) ==
    [b EXCEPT ![y1][x1] = b[y2][x2], ![y2][x2] = b[y1][x1]]

\* The loops of advance carry the board, and whether `dest -= 1` was run at
\* dest = 0: usize underflow, which panics when the build checks overflow
\* (debug profile) and wraps, never to be read again, when it does not.
RECURSIVE ForwardCol(_, _, _, _)
ForwardCol(b, x, y, dest) ==
    IF y >= H THEN b
    ELSE IF b[y][x] = 0 THEN ForwardCol(b, x, y + 1, dest)
    ELSE ForwardCol(Swap(b, y, x, dest, x), x, y + 1, dest + 1)

RECURSIVE ForwardAll(_, _)
ForwardAll(r, x) ==
    IF x >= W THEN r
    ELSE ForwardAll([r EXCEPT !.board = ForwardCol(r.board, x, 0, 0)], x + 1)

RECURSIVE BackCol(_, _, _, _)
BackCol(r, x, y, dest) ==
    IF y < 0 THEN r
    ELSE IF r.board[y][x] = 0 THEN BackCol(r, x, y - 1, dest)
    ELSE BackCol([board |-> Swap(r.board, y, x, dest, x),
                  ovf |-> r.ovf \/ dest = 0], x, y - 1, dest - 1)

RECURSIVE BackAll(_, _)
BackAll(r, x) ==
    IF x >= W THEN r ELSE BackAll(BackCol(r, x, H - 1, H - 1), x + 1)

RECURSIVE LeftRow(_, _, _, _)
LeftRow(b, y, x, dest) ==
    IF x >= W THEN b
    ELSE IF b[y][x] = 0 THEN LeftRow(b, y, x + 1, dest)
    ELSE LeftRow(Swap(b, y, x, y, dest), y, x + 1, dest + 1)

RECURSIVE LeftAll(_, _)
LeftAll(r, y) ==
    IF y >= H THEN r
    ELSE LeftAll([r EXCEPT !.board = LeftRow(r.board, y, 0, 0)], y + 1)

RECURSIVE RightRow(_, _, _, _)
RightRow(r, y, x, dest) ==
    IF x < 0 THEN r
    ELSE IF r.board[y][x] = 0 THEN RightRow(r, y, x - 1, dest)
    ELSE RightRow([board |-> Swap(r.board, y, x, y, dest),
                   ovf |-> r.ovf \/ dest = 0], y, x - 1, dest - 1)

RECURSIVE RightAll(_, _)
RightAll(r, y) ==
    IF y >= H THEN r ELSE RightAll(RightRow(r, y, W - 1, W - 1), y + 1)

\* A slip of advance: Back compacts towards row 0, as Forward does.
AdvanceRun_BackAsForward(b, a) ==
    LET r == [board |-> b, ovf |-> FALSE] IN
    CASE a = "Forward" -> ForwardAll(r, 0)
      [] a = "Back"    -> ForwardAll(r, 0)
      [] a = "Left"    -> LeftAll(r, 0)
      [] a = "Right"   -> RightAll(r, 0)

\* A slip of advance: a tile slides one cell only, when the cell next to it
\* in the direction of the move is empty.
RECURSIVE OneStep(_, _, _, _, _)
OneStep(b, cells, k, dy, dx) ==
    IF k > Len(cells) THEN b
    ELSE LET y == cells[k][1]
             x == cells[k][2]
             ty == y + dy
             tx == x + dx
         IN IF ty \in Rows /\ tx \in Cols /\ b[y][x] # 0 /\ b[ty][tx] = 0
            THEN OneStep(Swap(b, y, x, ty, tx), cells, k + 1, dy, dx)
            ELSE OneStep(b, cells, k + 1, dy, dx)

RowMajor == [k \in 1 .. (H * W) |-> <<(k - 1) \div W, (k - 1) % W>>]
RowMajorRev == [k \in 1 .. (H * W) |-> RowMajor[H * W + 1 - k]]

AdvanceRun_OneStep(b, a) ==
    [board |-> CASE a = "Forward" -> OneStep(b, RowMajor, 1, -1, 0)
                 [] a = "Back"    -> OneStep(b, RowMajorRev, 1, 1, 0)
                 [] a = "Left"    -> OneStep(b, RowMajor, 1, 0, -1)
                 [] a = "Right"   -> OneStep(b, RowMajorRev, 1, 0, 1),
     ovf |-> FALSE]

\* The match of State::advance: the board it leaves, and whether dest
\* underflowed on the way.
AdvanceRun(b, a) ==
    LET r == [board |-> b, ovf |-> FALSE] IN
    CASE a = "Forward" -> ForwardAll(r, 0)
      [] a = "Back"    -> BackAll(r, 0)
      [] a = "Left"    -> LeftAll(r, 0)
      [] a = "Right"   -> RightAll(r, 0)

\* State::advance, returned: the compacted board and self.turn += 1.
AdvanceState(s, a) == [board |-> AdvanceRun(s.board, a).board, turn |-> s.turn + 1]

\* A slip of update: cnt is compared before it is counted up, which makes the
\* position 0-based.
RECURSIVE UpdateScan_ZeroBased(_, _, _, _, _)
UpdateScan_ZeroBased(b, k, cnt, p, v) ==
    IF k > H * W THEN b
    ELSE LET y == RowMajor[k][1]
             x == RowMajor[k][2]
         IN IF b[y][x] # 0 THEN UpdateScan_ZeroBased(b, k + 1, cnt, p, v)
            ELSE IF cnt = p
                 THEN UpdateScan_ZeroBased([b EXCEPT ![y][x] = v], k + 1, cnt + 1, p, v)
                 ELSE UpdateScan_ZeroBased(b, k + 1, cnt + 1, p, v)

\* The two loops of State::update from cell number k (row-major) on, with cnt
\* empty cells counted so far; v is candies[self.turn].
RECURSIVE UpdateScan(_, _, _, _, _)
UpdateScan(b, k, cnt, p, v) ==
    IF k > H * W THEN b
    ELSE LET y == RowMajor[k][1]
             x == RowMajor[k][2]
         IN IF b[y][x] # 0 THEN UpdateScan(b, k + 1, cnt, p, v)
            ELSE IF cnt + 1 = p
                 THEN UpdateScan([b EXCEPT ![y][x] = v], k + 1, cnt + 1, p, v)
                 ELSE UpdateScan(b, k + 1, cnt + 1, p, v)

\* State::update.  candies[self.turn] is read only when the p-th empty cell
\* is found; with self.turn = END_TURN (past the array) no specification
\* below has a board with an empty cell left, and the scan changes nothing.
Update(b, t, p, cs) ==
    IF t \in DOMAIN cs THEN UpdateScan(b, 1, 0, p, cs[t]) ELSE b

\* ------------------------------------------------------------- score
DX == <<1, -1, 0, 0>>
DY == <<0, 0, 1, -1>>

\* The for loop over the four neighbours of (now_y, now_x), from i on: the
\* queue and the checked grid it leaves.
RECURSIVE Neighbours(_, _, _, _, _, _)
Neighbours(b, candy, cell, i, q, checked) ==
    IF i > 4 THEN [q |-> q, checked |-> checked]
    ELSE LET ty == cell[1] + DY[i]
             tx == cell[2] + DX[i]
         IN IF ty \in Rows /\ tx \in Cols
               /\ ~checked[ty][tx] /\ b[ty][tx] = candy
            THEN Neighbours(b, candy, cell, i + 1, Append(q, <<ty, tx>>),
                            [checked EXCEPT ![ty][tx] = TRUE])
            ELSE Neighbours(b, candy, cell, i + 1, q, checked)

\* The while loop of get_group_size.
RECURSIVE GroupLoop(_, _, _, _, _)
GroupLoop(b, candy, q, checked, cnt) ==
    IF q = <<>> THEN [cnt |-> cnt, checked |-> checked]
    ELSE LET r == Neighbours(b, candy, Head(q), 1, Tail(q), checked)
         IN GroupLoop(b, candy, r.q, r.checked, cnt + 1)

\* A slip of get_group_size: the group is counted but the cells it reaches
\* are not marked as checked for the caller.
GetGroupSize_NoMark(b, y, x, checked) ==
    [cnt |-> GroupLoop(b, b[y][x], <<<<y, x>>>>,
                       [checked EXCEPT ![y][x] = TRUE], 0).cnt,
     checked |-> [checked EXCEPT ![y][x] = TRUE]]

\* State::get_group_size: the size of the group of (y, x), and checked as the
\* search leaves it.
GetGroupSize(b, y, x, checked) ==
    GroupLoop(b, b[y][x], <<<<y, x>>>>, [checked EXCEPT ![y][x] = TRUE], 0)

\* The two loops of get_score from cell number k on.
RECURSIVE ScoreScan(_, _, _, _)
ScoreScan(b, k, checked, acc) ==
    IF k > H * W THEN acc
    ELSE LET y == RowMajor[k][1]
             x == RowMajor[k][2]
         IN IF b[y][x] # 0 /\ ~checked[y][x]
            THEN LET g == GetGroupSize(b, y, x, checked)
                 IN ScoreScan(b, k + 1, g.checked, acc + g.cnt * g.cnt)
            ELSE ScoreScan(b, k + 1, checked, acc)

\* State::get_score (the f64 sum is exact: whole numbers far below 2^53).
GetScore(b) == ScoreScan(b, 1, [y \in Rows |-> [x \in Cols |-> FALSE]], 0)


\* ---------------------------------------------------- inputs, helpers
Cells == Rows \X Cols
At(b, c) == b[c[1]][c[2]]
TileCount(b) == Cardinality({c \in Cells : At(b, c) # 0})
EmptyCount(b) == Cardinality({c \in Cells : At(b, c) = 0})
Last(s) == s[Len(s)]

\* The schedules read at startup (input! future: [u8; END_TURN]): flavours
\* 1..CANDY_KINDS, in blocks (1,1,1,2,2,2,...) or cycling every turn.
BlockSchedule == [t \in Turns |-> 1 + ((t \div 3) % CANDY_KINDS)]
CycleSchedule == [t \in Turns |-> 1 + (t % CANDY_KINDS)]
Schedules == {BlockSchedule, CycleSchedule}
\* The whole game is played on the schedule in blocks, whose neighbouring
\* pairs take the rollout policy through all four actions.
GameSchedules == {BlockSchedule}

\* The positions tried on a board with e empty cells: below the range, its
\* two ends and their neighbours, and one past it.
PtInputs(e) == {0, 1, 2, e, e + 1}

\* The positions the game is fed: the first and the last empty cell, and one
\* past the last.
GamePtInputs(e) == {1, e, e + 1}

boardVars == <<board, turn, pc, pt, action, score, pre>>
otherVars == <<table, now, tk, main_turn, simulation_cnt, d, w, sim,
               in_range, allow, prev_allow, elapsed>>

\* TimeKeeper::new(time_threshold, end_turn), made when the clock reads n.
NewTimeKeeper(time_threshold, end_turn, n) ==
    [start_time |-> n, before_time |-> n, time_threshold |-> time_threshold,
     end_turn |-> end_turn, turn |-> 0]

NoTimeKeeper == NewTimeKeeper(TIME_THRESHOLD, END_TURN, 0)

\* ---------------------------------------------------------- SpecBoard
\* One State of any content: every board with tiles 0..MaxTile, its turn the
\* number of tiles on it (one insertion per turn).
InitBoard ==
    /\ board \in [Rows -> [Cols -> 0 .. MaxTile]]
    /\ turn = TileCount(board)
    /\ candies \in Schedules
    /\ pc = "input"
    /\ pt = 0
    /\ action = "Forward"
    /\ score = 0
    /\ pre = <<>>
    /\ table = <<>>
    /\ now = 0
    /\ tk = NoTimeKeeper
    /\ main_turn = 0
    /\ simulation_cnt = 0
    /\ d = 0
    /\ w = <<0, 0, 0, 0>>
    /\ sim = StateOf(EmptyBoard, 0)
    /\ in_range = TRUE
    /\ allow = -1
    /\ prev_allow = -1
    /\ elapsed = FALSE

\* state.advance(a), returned.
BoardAdvance(a) ==
    /\ pc = "input"
    /\ LET s == AdvanceState(StateOf(board, turn), a)
       IN /\ board' = s.board
          /\ turn' = s.turn
    /\ action' = a
    /\ pre' = <<StateOf(board, turn)>>
    /\ pc' = "advance"
    /\ UNCHANGED <<candies, pt, score, otherVars>>

\* state.advance(a) where dest underflows and the build checks it: the
\* process panics inside advance.
BoardAdvancePanic(a) ==
    /\ pc = "input"
    /\ AdvanceRun(board, a).ovf
    /\ action' = a
    /\ pc' = "panic"
    /\ UNCHANGED <<board, turn, candies, pt, score, pre, otherVars>>

\* The same action a second time.
BoardAdvanceAgain ==
    /\ pc = "advance"
    /\ LET s == AdvanceState(StateOf(board, turn), action)
       IN /\ board' = s.board
          /\ turn' = s.turn
    /\ pre' = Append(pre, StateOf(board, turn))
    /\ pc' = "advance2"
    /\ UNCHANGED <<candies, pt, action, score, otherVars>>

\* state.update(p)
BoardUpdate(p) ==
    /\ pc = "input"
    /\ board' = Update(board, turn, p, candies)
    /\ pt' = p
    /\ pre' = <<StateOf(board, turn)>>
    /\ pc' = "update"
    /\ UNCHANGED <<turn, candies, action, score, otherVars>>

\* state.get_score()
BoardScore ==
    /\ pc = "input"
    /\ score' = GetScore(board)
    /\ pre' = <<StateOf(board, turn)>>
    /\ pc' = "score"
    /\ UNCHANGED <<board, turn, candies, pt, action, otherVars>>

NextBoard ==
    \/ \E a \in Actions : BoardAdvance(a)
    \/ \E a \in Actions : BoardAdvancePanic(a)
    \/ BoardAdvanceAgain
    \/ \E p \in PtInputs(EmptyCount(board)) : BoardUpdate(p)
    \/ BoardScore

SpecBoard == InitBoard /\ [][NextBoard]_vars


\* ------------------------------------------------- properties: board
\* The cells of line i of a move, from the target edge outwards: column i
\* from row 0 (Forward) or row H-1 (Back), row i from column 0 (Left) or
\* column W-1 (Right).
LineCount(a) == IF a \in {"Forward", "Back"} THEN W ELSE H
LineLen(a) == IF a \in {"Forward", "Back"} THEN H ELSE W
LineVals(b, a, i) ==
    [k \in 1 .. LineLen(a) |->
        CASE a = "Forward" -> b[k - 1][i]
          [] a = "Back"    -> b[H - k][i]
          [] a = "Left"    -> b[i][k - 1]
          [] a = "Right"   -> b[i][W - k]]
NonEmpty(v) == v # 0
TilesOf(line) == SelectSeq(line, NonEmpty)
\* No tile lies behind an empty cell, seen from the target edge.
Packed(line) ==
    \A k \in 1 .. Len(line) : line[k] = 0 => \A j \in k .. Len(line) : line[j] = 0

\* How many cells hold each value.
TileCounts(b) ==
    [v \in 1 .. CANDY_KINDS |-> Cardinality({c \in Cells : At(b, c) = v})]

\* The p-th empty cell in row-major order, stated without the scan: the
\* empty cell with p - 1 empty cells before it.
Before(c1, c2) == c1[1] < c2[1] \/ (c1[1] = c2[1] /\ c1[2] < c2[2])
NthEmpty(b, p) ==
    CHOOSE c \in Cells :
        /\ At(b, c) = 0
        /\ Cardinality({e \in Cells : At(b, e) = 0 /\ Before(e, c)}) = p - 1

\* C1: after advance(a) every line of the move is packed against the edge
\* the move points to, holds the tiles it held in the order it held them, and
\* the turn counter is one higher.
C1_AdvanceCompactsStably ==
    pc = "advance" =>
        /\ \A i \in 0 .. (LineCount(action) - 1) :
              /\ Packed(LineVals(board, action, i))
              /\ TilesOf(LineVals(board, action, i))
                    = TilesOf(LineVals(pre[1].board, action, i))
        /\ turn = pre[1].turn + 1

\* A Back move that carried two different tiles of one column down to the
\* empty bottom row.
C1_Witness ==
    /\ pc = "advance"
    /\ action = "Back"
    /\ \E x \in Cols :
          /\ pre[1].board[0][x] = 1
          /\ pre[1].board[1][x] = 2
          /\ pre[1].board[H - 1][x] = 0
          /\ board[H - 1][x] = 2
          /\ board[H - 2][x] = 1

\* C2: advance keeps the number of tiles of every value; update(p) with
\* 1 <= p <= number of empty cells writes candies[turn] into the p-th empty
\* cell in row-major order and changes nothing else, so the board holds one
\* tile more and the turn counter is as before.
C2_AdvanceConservesUpdateAddsOne ==
    /\ pc \in {"advance", "advance2"} =>
          TileCounts(board) = TileCounts(Last(pre).board)
    /\ (pc = "update" /\ pt \in 1 .. EmptyCount(pre[1].board)) =>
          LET c == NthEmpty(pre[1].board, pt)
          IN /\ At(pre[1].board, c) = 0
             /\ board = [pre[1].board EXCEPT ![c[1]][c[2]] = candies[pre[1].turn]]
             /\ TileCount(board) = TileCount(pre[1].board) + 1
             /\ turn = pre[1].turn

\* An insertion into the second empty cell of a board with tiles before and
\* after it.
C2_Witness ==
    /\ pc = "update"
    /\ pt = 2
    /\ pre[1].board[0][0] # 0
    /\ pre[1].board[0][1] = 0
    /\ pre[1].board[1][0] # 0
    /\ pre[1].board[1][1] = 0
    /\ board[1][1] = candies[pre[1].turn]
    /\ TileCount(board) = TileCount(pre[1].board) + 1

\* The groups of a board, stated without the search: the classes of the
\* non-empty cells under "joined by a path of side-adjacent cells of the same
\* value".
Adjacent(c1, c2) ==
    \/ (c1[1] = c2[1] /\ (c1[2] - c2[2]) \in {-1, 1})
    \/ (c1[2] = c2[2] /\ (c1[1] - c2[1]) \in {-1, 1})
RECURSIVE GroupOf(_, _)
GroupOf(b, S) ==
    LET more == {c \in Cells \ S :
                    \E e \in S : Adjacent(e, c) /\ At(b, c) = At(b, e)}
    IN IF more = {} THEN S ELSE GroupOf(b, S \cup more)
Groups(b) == {GroupOf(b, {c}) : c \in {e \in Cells : At(b, e) # 0}}
RECURSIVE SumOfSquares(_)
SumOfSquares(G) ==
    IF G = {} THEN 0
    ELSE LET g == CHOOSE g \in G : TRUE
         IN Cardinality(g) * Cardinality(g) + SumOfSquares(G \ {g})
GroupSizes(b) == {Cardinality(g) : g \in Groups(b)}

\* C3: get_score is the sum of the squared sizes of the groups; 0 on the
\* empty board, 34 on two groups of 3 and 5 tiles, (H*W)^2 on a board filled
\* with one value.
C3_ScoreIsSumOfSquaredGroups ==
    pc = "score" =>
        /\ score = SumOfSquares(Groups(board))
        /\ board = EmptyBoard => score = 0
        /\ (Cardinality(Groups(board)) = 2 /\ GroupSizes(board) = {3, 5})
              => score = 34
        /\ (\E v \in 1 .. MaxTile : \A c \in Cells : At(board, c) = v)
              => score = (H * W) * (H * W)

\* A scored board whose tiles are one group of 3 and one group of 5.
C3_Witness ==
    /\ pc = "score"
    /\ Cardinality(Groups(board)) = 2
    /\ GroupSizes(board) = {3, 5}
    /\ score = 34

\* C7: advance with the same action a second time leaves the board of the
\* first; only the turn counter moves.
C7_AdvanceTwiceIsOnce ==
    pc = "advance2" =>
        /\ board = pre[2].board
        /\ turn = pre[2].turn + 1

\* A second Left move after a first one that moved a tile.
C7_Witness ==
    /\ pc = "advance2"
    /\ action = "Left"
    /\ pre[1].board # pre[2].board
    /\ board = pre[2].board
    /\ TileCount(board) >= 2


\* -------------------------------------------------------- TimeKeeper
\* The clock moves in steps of half the threshold.
TickMs == TIME_THRESHOLD \div 2
\* Instant::now(): the clock is monotonic; any reading from the last one on.
ClockRead(n) == {n + k * TickMs : k \in 0 .. MaxTicks} \cap (0 .. MaxTicks * TickMs)

\* TimeKeeper::set_turn at clock reading n.
SetTurn(k, t, n) == [k EXCEPT !.turn = t, !.before_time = n]

WholeDiff(k, n) == n - k.start_time
LastDiff(k, n) == n - k.before_time
\* `self.time_threshold - whole_diff` is Duration - Duration, which panics
\* ("overflow when subtracting durations") when the result would be negative.
DurationSubPanics(k, n) == WholeDiff(k, n) > k.time_threshold

\* A slip of is_time_over: the remaining time is divided by the turns played
\* instead of the turns left.
NowThreshold_ByTurnsPlayed(k, n) ==
    (k.time_threshold - WholeDiff(k, n)) \div (k.turn + 1)

\* now_threshold = remaining_time / (end_turn - turn) as u32, in whole ms.
NowThreshold(k, n) ==
    (k.time_threshold - WholeDiff(k, n)) \div (k.end_turn - k.turn)

\* TimeKeeper::is_time_over, when it returns.
IsTimeOver(k, n) == LastDiff(k, n) >= NowThreshold(k, n)

\* ----------------------------------------------------------- SpecTime
\* set_turn(0), is_time_over(), set_turn(1), is_time_over(), ... up to turn
\* END_TURN - 1, the clock free to move or to stand still at every reading.
timeVars == <<now, tk, pc, main_turn, allow, prev_allow, elapsed>>
notTimeVars == <<board, turn, candies, table, pt, simulation_cnt, d, w, sim,
                 action, score, pre, in_range>>

InitTime ==
    /\ board = EmptyBoard
    /\ turn = 0
    /\ candies \in Schedules
    /\ pc = "set_turn"
    /\ pt = 0
    /\ action = "Forward"
    /\ score = 0
    /\ pre = <<>>
    /\ table = <<>>
    /\ now = 0
    /\ tk = NewTimeKeeper(TIME_THRESHOLD, END_TURN, 0)
    /\ main_turn = 0
    /\ simulation_cnt = 0
    /\ d = 0
    /\ w = <<0, 0, 0, 0>>
    /\ sim = StateOf(EmptyBoard, 0)
    /\ in_range = TRUE
    /\ allow = -1
    /\ prev_allow = -1
    /\ elapsed = FALSE

TimeSetTurn ==
    /\ pc = "set_turn"
    /\ main_turn < END_TURN
    /\ \E n \in ClockRead(now) :
          /\ now' = n
          /\ tk' = SetTurn(tk, main_turn, n)
          /\ elapsed' = (elapsed \/ n # now)
    /\ pc' = "check"
    /\ UNCHANGED <<main_turn, allow, prev_allow, notTimeVars>>

\* is_time_over returns: the allowance it computed is kept beside the one
\* of the call before.
TimeCheck ==
    /\ pc = "check"
    /\ \E n \in ClockRead(now) :
          /\ ~DurationSubPanics(tk, n)
          /\ now' = n
          /\ elapsed' = (elapsed \/ n # now)
          /\ allow' = NowThreshold(tk, n)
          /\ prev_allow' = allow
    /\ main_turn' = main_turn + 1
    /\ pc' = "set_turn"
    /\ UNCHANGED <<tk, notTimeVars>>

\* is_time_over panics in the subtraction.
TimeCheckPanic ==
    /\ pc = "check"
    /\ \E n \in ClockRead(now) :
          /\ DurationSubPanics(tk, n)
          /\ now' = n
          /\ elapsed' = TRUE
    /\ pc' = "panic_time"
    /\ UNCHANGED <<tk, main_turn, allow, prev_allow, notTimeVars>>

NextTime == TimeSetTurn \/ TimeCheck \/ TimeCheckPanic

SpecTime == InitTime /\ [][NextTime]_vars

\* C6 (as the code has it): with no time elapsing, the allowance of each
\* turn is at least the allowance of the turn before.
C6_AllowanceNeverShrinks ==
    (~elapsed /\ prev_allow >= 0) => allow >= prev_allow

\* Two turns checked with the clock standing still, the second allowance
\* strictly larger.
C6_Witness ==
    /\ ~elapsed
    /\ tk.turn >= 1
    /\ prev_allow >= 0
    /\ allow > prev_allow

\* C6 as claimed: with no time elapsing, the allowance is non-increasing as
\* the turn index increases.
C6_Original ==
    (~elapsed /\ prev_allow >= 0) => allow <= prev_allow


\* ------------------------------------------------- policy and search
\* The table `rule` of rulebase_action, indexed by the flavours themselves.
Rule ==
    << <<"Forward", "Back", "Back">>,
       <<"Forward", "Left", "Right">>,
       <<"Forward", "Left", "Right">> >>

\* rulebase_action(state)
RulebaseAction(t, cs) ==
    IF t >= END_TURN - 1 THEN "Forward" ELSE Rule[cs[t]][cs[t + 1]]

\* A slip of the selection: >= lets a later action of the same total win.
RECURSIVE BestLoop_LastWins(_, _, _, _)
BestLoop_LastWins(ws, i, best_score, best_action_idx) ==
    IF i >= Len(ws) THEN best_action_idx
    ELSE IF ws[i + 1] >= best_score
         THEN BestLoop_LastWins(ws, i + 1, ws[i + 1], i)
         ELSE BestLoop_LastWins(ws, i + 1, best_score, best_action_idx)

\* The selection loop of primitive_monteralro from index i on.
RECURSIVE BestLoop(_, _, _, _)
BestLoop(ws, i, best_score, best_action_idx) ==
    IF i >= Len(ws) THEN best_action_idx
    ELSE IF ws[i + 1] > best_score
         THEN BestLoop(ws, i + 1, ws[i + 1], i)
         ELSE BestLoop(ws, i + 1, best_score, best_action_idx)

\* best_action_idx as the loop leaves it (0-based, as in the source).
BestActionIdx(ws) == BestLoop(ws, 0, 0, 0)

\* A slip of the table's generation: the range is not narrowed as turns go.
RemainTurn_Whole(t) == END_TURN

\* remain_turn = END_TURN - turn
RemainTurn(t) == END_TURN - t

\* rng.gen_range(1..=remain_turn), for a raw draw r of the generator.
GenRange(remain_turn, r) == 1 + (r % remain_turn)

\* The generator's stream is not part of the sources: the table is one of
\* a family, each entry drawn within its range.
RawDraw(seed, s, t) == seed * (t + 2) + s * 5 + t * t
Tables ==
    { [s \in Sims |-> [t \in Turns |->
          GenRange(RemainTurn(t), RawDraw(seed, s, t))]] : seed \in 0 .. MaxSeed }

\* ---------------------------------------------------------------- Spec
SearchPcs == {"check", "rollout", "playout", "sim_advance", "select"}
PanicPcs == {"panic_time", "panic_overflow"}

Init ==
    /\ board = EmptyBoard
    /\ turn = 0
    /\ candies \in GameSchedules
    /\ table \in Tables
    /\ now = 0
    /\ tk = NewTimeKeeper(TIME_THRESHOLD, END_TURN, 0)
    /\ pc = "set_turn"
    /\ main_turn = 0
    /\ pt = 0
    /\ simulation_cnt = 0
    /\ d = 0
    /\ w = <<0, 0, 0, 0>>
    /\ sim = StateOf(EmptyBoard, 0)
    /\ action = "Forward"
    /\ score = 0
    /\ pre = <<>>
    /\ in_range = TRUE
    /\ allow = -1
    /\ prev_allow = -1
    /\ elapsed = FALSE

ghostTime == <<allow, prev_allow, elapsed>>

\* time_keeper.set_turn(turn)
MainSetTurn ==
    /\ pc = "set_turn"
    /\ \E n \in ClockRead(now) :
          /\ now' = n
          /\ tk' = SetTurn(tk, main_turn, n)
    /\ pc' = "input"
    /\ UNCHANGED <<board, turn, candies, table, main_turn, pt, simulation_cnt,
                   d, w, sim, action, score, pre, in_range, ghostTime>>

\* input! pt; state.update(pt); then primitive_monteralro is entered with
\* w = [0.; 4].  pre keeps the State before the update and the State the
\* search is given.
MainInput(p) ==
    /\ pc = "input"
    /\ board' = Update(board, turn, p, candies)
    /\ pt' = p
    /\ in_range' = (in_range /\ p \in 1 .. EmptyCount(board))
    /\ pre' = <<StateOf(board, turn), StateOf(board', turn)>>
    /\ w' = <<0, 0, 0, 0>>
    /\ simulation_cnt' = 0
    /\ pc' = "check"
    /\ UNCHANGED <<turn, candies, table, now, tk, main_turn, d, sim, action,
                   score, ghostTime>>

\* for simulation_cnt in 0..SIMULATION_MAX: the range is used up.
SearchLoopEnd ==
    /\ pc = "check"
    /\ simulation_cnt >= SIMULATION_MAX
    /\ pc' = "select"
    /\ UNCHANGED <<board, turn, candies, table, now, tk, main_turn, pt,
                   simulation_cnt, d, w, sim, action, score, pre, in_range,
                   ghostTime>>

\* is_time_over() panics.
SearchTimePanic ==
    /\ pc = "check"
    /\ simulation_cnt < SIMULATION_MAX
    /\ \E n \in ClockRead(now) :
          /\ DurationSubPanics(tk, n)
          /\ now' = n
    /\ pc' = "panic_time"
    /\ UNCHANGED <<board, turn, candies, table, tk, main_turn, pt,
                   simulation_cnt, d, w, sim, action, score, pre, in_range,
                   ghostTime>>

\* is_time_over() returns true: break.
SearchTimeOver ==
    /\ pc = "check"
    /\ simulation_cnt < SIMULATION_MAX
    /\ \E n \in ClockRead(now) :
          /\ ~DurationSubPanics(tk, n)
          /\ IsTimeOver(tk, n)
          /\ now' = n
    /\ pc' = "select"
    /\ UNCHANGED <<board, turn, candies, table, tk, main_turn, pt,
                   simulation_cnt, d, w, sim, action, score, pre, in_range,
                   ghostTime>>

\* is_time_over() returns false: the loop over the four actions starts.
SearchTimeLeft ==
    /\ pc = "check"
    /\ simulation_cnt < SIMULATION_MAX
    /\ \E n \in ClockRead(now) :
          /\ ~DurationSubPanics(tk, n)
          /\ ~IsTimeOver(tk, n)
          /\ now' = n
    /\ d' = 0
    /\ pc' = "rollout"
    /\ UNCHANGED <<board, turn, candies, table, tk, main_turn, pt,
                   simulation_cnt, w, sim, action, score, pre, in_range,
                   ghostTime>>

\* A slip of the search: the first move is played on the State it was
\* given, not on a clone.
RolloutBegin_NoClone ==
    /\ pc = "rollout"
    /\ d < Len(LEGAL_ACTIONS)
    /\ sim' = AdvanceState(StateOf(board, turn), LEGAL_ACTIONS[d + 1])
    /\ board' = sim'.board
    /\ turn' = sim'.turn
    /\ pc' = "playout"
    /\ UNCHANGED <<candies, table, now, tk, main_turn, pt,
                   simulation_cnt, d, w, action, score, pre, in_range,
                   ghostTime>>

\* let mut state = base_state.clone(); state.advance(LEGAL_ACTIONS[d]);
RolloutBegin ==
    /\ pc = "rollout"
    /\ d < Len(LEGAL_ACTIONS)
    /\ sim' = AdvanceState(StateOf(board, turn), LEGAL_ACTIONS[d + 1])
    /\ pc' = "playout"
    /\ UNCHANGED <<board, turn, candies, table, now, tk, main_turn, pt,
                   simulation_cnt, d, w, action, score, pre, in_range,
                   ghostTime>>

\* The same, in a build that checks overflow, when dest underflows.
RolloutBeginPanic ==
    /\ pc = "rollout"
    /\ d < Len(LEGAL_ACTIONS)
    /\ AdvanceRun(board, LEGAL_ACTIONS[d + 1]).ovf
    /\ pc' = "panic_overflow"
    /\ UNCHANGED <<board, turn, candies, table, now, tk, main_turn, pt,
                   simulation_cnt, d, w, sim, action, score, pre, in_range,
                   ghostTime>>

\* The four actions are done: the next simulation_cnt.
SearchNextSim ==
    /\ pc = "rollout"
    /\ d >= Len(LEGAL_ACTIONS)
    /\ simulation_cnt' = simulation_cnt + 1
    /\ pc' = "check"
    /\ UNCHANGED <<board, turn, candies, table, now, tk, main_turn, pt,
                   d, w, sim, action, score, pre, in_range, ghostTime>>

\* playout: while !state.is_done() { state.simulation_update(simulation_cnt);
PlayoutUpdate ==
    /\ pc = "playout"
    /\ ~IsDone(sim.turn)
    /\ sim' = [sim EXCEPT !.board =
                  Update(sim.board, sim.turn, table[simulation_cnt][sim.turn], candies)]
    /\ pc' = "sim_advance"
    /\ UNCHANGED <<board, turn, candies, table, now, tk, main_turn, pt,
                   simulation_cnt, d, w, action, score, pre, in_range,
                   ghostTime>>

\* state.advance(rulebase_action(state)); }
PlayoutAdvance ==
    /\ pc = "sim_advance"
    /\ sim' = AdvanceState(sim, RulebaseAction(sim.turn, candies))
    /\ pc' = "playout"
    /\ UNCHANGED <<board, turn, candies, table, now, tk, main_turn, pt,
                   simulation_cnt, d, w, action, score, pre, in_range,
                   ghostTime>>

PlayoutAdvancePanic ==
    /\ pc = "sim_advance"
    /\ AdvanceRun(sim.board, RulebaseAction(sim.turn, candies)).ovf
    /\ pc' = "panic_overflow"
    /\ UNCHANGED <<board, turn, candies, table, now, tk, main_turn, pt,
                   simulation_cnt, d, w, sim, action, score, pre, in_range,
                   ghostTime>>

\* state.get_score() ends playout; w[d] += it; the next d.
PlayoutScore ==
    /\ pc = "playout"
    /\ IsDone(sim.turn)
    /\ score' = GetScore(sim.board)
    /\ w' = [w EXCEPT ![d + 1] = @ + score']
    /\ d' = d + 1
    /\ pc' = "rollout"
    /\ UNCHANGED <<board, turn, candies, table, now, tk, main_turn, pt,
                   simulation_cnt, sim, action, pre, in_range, ghostTime>>

\* The selection loop; primitive_monteralro returns LEGAL_ACTIONS[best_action_idx].
SearchSelect ==
    /\ pc = "select"
    /\ action' = LEGAL_ACTIONS[BestActionIdx(w) + 1]
    /\ pc' = "emit"
    /\ UNCHANGED <<board, turn, candies, table, now, tk, main_turn, pt,
                   simulation_cnt, d, w, sim, score, pre, in_range, ghostTime>>

\* println!("{}", action_to_char(action)); flush.  The locals of the search
\* are gone by now.
MainPrint ==
    /\ pc = "emit"
    /\ simulation_cnt' = 0
    /\ d' = 0
    /\ w' = <<0, 0, 0, 0>>
    /\ sim' = StateOf(EmptyBoard, 0)
    /\ score' = 0
    /\ pc' = "advance"
    /\ UNCHANGED <<board, turn, candies, table, now, tk, main_turn, pt,
                   action, pre, in_range, ghostTime>>

\* state.advance(action); the next turn of the for loop, or its end.
MainAdvance ==
    /\ pc = "advance"
    /\ LET s == AdvanceState(StateOf(board, turn), action)
       IN /\ board' = s.board
          /\ turn' = s.turn
    /\ main_turn' = main_turn + 1
    /\ pt' = 0
    /\ pre' = <<>>
    /\ pc' = IF main_turn + 1 < END_TURN THEN "set_turn" ELSE "done"
    /\ UNCHANGED <<candies, table, now, tk, simulation_cnt, d, w, sim,
                   action, score, in_range, ghostTime>>

MainAdvancePanic ==
    /\ pc = "advance"
    /\ AdvanceRun(board, action).ovf
    /\ pc' = "panic_overflow"
    /\ UNCHANGED <<board, turn, candies, table, now, tk, main_turn, pt,
                   simulation_cnt, d, w, sim, action, score, pre, in_range,
                   ghostTime>>

Next ==
    \/ MainSetTurn
    \/ \E p \in GamePtInputs(EmptyCount(board)) : MainInput(p)
    \/ SearchLoopEnd
    \/ SearchTimePanic
    \/ SearchTimeOver
    \/ SearchTimeLeft
    \/ RolloutBegin
    \/ RolloutBeginPanic
    \/ SearchNextSim
    \/ PlayoutUpdate
    \/ PlayoutAdvance
    \/ PlayoutAdvancePanic
    \/ PlayoutScore
    \/ SearchSelect
    \/ MainPrint
    \/ MainAdvance
    \/ MainAdvancePanic

Spec == Init /\ [][Next]_vars


\* -------------------------------------------------- properties: game
\* The earliest index whose total no other total exceeds.
FirstArgmax(ws) ==
    CHOOSE i \in 1 .. Len(ws) :
        /\ \A j \in 1 .. Len(ws) : ws[j] <= ws[i]
        /\ \A j \in 1 .. (i - 1) : ws[j] < ws[i]

\* The selection alone: whenever the search returns, its action is the
\* earliest one of the greatest total (Forward when all totals are 0).
SelectIsFirstArgmax ==
    pc = "emit" => action = LEGAL_ACTIONS[FirstArgmax(w)]

\* C4 as claimed: the search returns the earliest action of the greatest
\* total, and a budget found exhausted at the first check makes it return
\* Forward: that check never ends the process instead.
C4_Original ==
    /\ pc = "emit" => action = LEGAL_ACTIONS[FirstArgmax(w)]
    /\ (pc = "emit" /\ simulation_cnt = 0) => action = "Forward"
    /\ ~(pc = "panic_time" /\ simulation_cnt = 0)

\* C5 as claimed: a move is chosen and printed only for a position within
\* 1 .. number of empty cells; past it the process has aborted.
C5_Original ==
    pc \in {"emit", "advance"} => pt \in 1 .. EmptyCount(pre[1].board)

\* C8: from the call of the search to its return the real State is the one
\* it was given, and the real State changes in two steps of main only:
\* the update after the input and the advance after the print.
C8_SearchLeavesRealState ==
    /\ [](pc \in SearchPcs \cup {"emit"} => StateOf(board, turn) = pre[2])
    /\ [][(board' # board \/ turn' # turn) =>
             \/ (pc = "input" /\ pc' = "check")
             \/ (pc = "advance" /\ pc' \in {"set_turn", "done"})]_vars

\* The search has returned after SIMULATION_MAX simulations of every action.
C8_Witness ==
    /\ pc = "emit"
    /\ simulation_cnt = SIMULATION_MAX
    /\ \A i \in 1 .. Len(w) : w[i] > 0
    /\ turn >= 1
    /\ StateOf(board, turn) = pre[2]

\* C9: with every real position within range, a rollout calls
\* simulation_update on a board of exactly sim.turn tiles with a table
\* entry within 1 .. number of empty cells, the update places one tile, and
\* the rollout is scored at turn END_TURN on a full board.
C9_RolloutFillsBoard ==
    in_range =>
        /\ (pc = "playout" /\ ~IsDone(sim.turn)) =>
              /\ TileCount(sim.board) = sim.turn
              /\ table[simulation_cnt][sim.turn] \in 1 .. EmptyCount(sim.board)
        /\ pc = "sim_advance" => TileCount(sim.board) = sim.turn + 1
        /\ (pc = "playout" /\ IsDone(sim.turn)) =>
              /\ sim.turn = END_TURN
              /\ EmptyCount(sim.board) = 0

\* A rollout of the second simulation, started at a real turn with three or
\* more tiles still to come, at its end.
C9_Witness ==
    /\ in_range
    /\ pc = "playout"
    /\ IsDone(sim.turn)
    /\ simulation_cnt = 1
    /\ main_turn >= 1
    /\ pre[2].turn <= END_TURN - 4
    /\ EmptyCount(sim.board) = 0

\* C10 as claimed: a call of is_time_over made once the elapsed time has
\* reached or passed the threshold reports time over; it does not fail.
C10_Original ==
    WholeDiff(tk, now) >= tk.time_threshold => pc # "panic_time"

=============================================================================
